---- MODULE Spec2Model ----
(***************************************************************************)
(* A model of the poker hand ranking library in src/src/lib.rs:            *)
(* winning_hands, PokerHand::from_parse, PokerHand::rank_hand,             *)
(* PokerHand::aces_swap_over and the comparison of two PokerHand values.   *)
(*                                                                         *)
(* A hand string is a sequence of one-character strings; a Card is a       *)
(* record [suit, value]; a PokerHand is a record with the fields of the    *)
(* struct plus ok, which is FALSE for the outcome "the constructor         *)
(* panicked".  A panic of the whole call is the outcome "panic".           *)
(***************************************************************************)
EXTENDS Integers, Sequences, FiniteSets, TLC

VARIABLES hands, pc, poker_hands, ret, lhs, rhs, ordering

vars == <<hands, pc, poker_hands, ret, lhs, rhs, ordering>>

(***************************************************************************)
(* enum PokerRank and the values the code gives the ace.                   *)
(***************************************************************************)
StraightFlush == 9
FourOfAKind == 8
FullHouse == 7
Flush == 6
Straight == 5
ThreeOfAKind == 4
TwoPair == 3
OnePair == 2
HighCard == 1
NotRanked == 0

AceHigh == 14
AceLow == 1
KingValue == 13
QueenValue == 12
JackValue == 11
U16Max == 65535

(***************************************************************************)
(* Generic helpers on sequences.                                           *)
(***************************************************************************)
RECURSIVE Flatten(_)
Flatten(ss) == IF ss = <<>> THEN <<>> ELSE Head(ss) \o Flatten(Tail(ss))

Last(s) == s[Len(s)]

Front(s) == SubSeq(s, 1, Len(s) - 1)

\* Vec::sort_by with a comparison of integer keys: a stable sort.  keyed is a
\* sequence of pairs <<key, item>>; the result is ascending in key and keeps
\* the input order of items whose keys are equal.
RECURSIVE InsertKeyed(_, _)
InsertKeyed(sorted, x) ==
    IF sorted = <<>> THEN <<x>>
    ELSE IF x[1] < Last(sorted)[1]
         THEN Append(InsertKeyed(Front(sorted), x), Last(sorted))
         ELSE Append(sorted, x)

RECURSIVE StableSortKeyed(_)
StableSortKeyed(keyed) ==
    IF keyed = <<>> THEN <<>>
    ELSE InsertKeyed(StableSortKeyed(Front(keyed)), Last(keyed))

Items(keyed) == [i \in DOMAIN keyed |-> keyed[i][2]]

\* cards.sort_by(|a, b| a.value.cmp(&b.value))
SortByValueAsc(cards) ==
    Items(StableSortKeyed([i \in DOMAIN cards |-> <<cards[i].value, cards[i]>>]))

\* cards.sort_by(|a, b| b.value.cmp(&a.value))
SortByValueDesc(cards) ==
    Items(StableSortKeyed([i \in DOMAIN cards |-> <<0 - cards[i].value, cards[i]>>]))

\* result.sort_by(|&a, &b| b.len().cmp(&a.len()))
SortByLenDesc(groups) ==
    Items(StableSortKeyed([i \in DOMAIN groups |-> <<0 - Len(groups[i]), groups[i]>>]))

(***************************************************************************)
(* CardSuit::from_abbrev and the parse of a rank text.                     *)
(***************************************************************************)
to_ascii_uppercase(ch) ==
    CASE ch = "s" -> "S"
      [] ch = "c" -> "C"
      [] ch = "d" -> "D"
      [] ch = "h" -> "H"
      [] ch = "a" -> "A"
      [] ch = "k" -> "K"
      [] ch = "q" -> "Q"
      [] ch = "j" -> "J"
      [] ch = "x" -> "X"
      [] OTHER -> ch

from_abbrev(ch) ==
    LET up == to_ascii_uppercase(ch)
    IN  CASE up = "S" -> "Spade"
          [] up = "C" -> "Club"
          [] up = "D" -> "Diamond"
          [] up = "H" -> "Heart"
          [] OTHER -> "Joker"

DigitChars == {"0", "1", "2", "3", "4", "5", "6", "7", "8", "9"}

DigitVal(c) ==
    CASE c = "0" -> 0 [] c = "1" -> 1 [] c = "2" -> 2 [] c = "3" -> 3
      [] c = "4" -> 4 [] c = "5" -> 5 [] c = "6" -> 6 [] c = "7" -> 7
      [] c = "8" -> 8 [] c = "9" -> 9

\* The Err of a parse: no card value.
ParseErr == 0 - 1

RECURSIVE ParseDigits(_, _)
ParseDigits(s, acc) ==
    IF s = <<>> THEN acc
    ELSE IF Head(s) \notin DigitChars THEN ParseErr
    ELSE LET v == acc * 10 + DigitVal(Head(s))
         IN  IF v > U16Max THEN ParseErr ELSE ParseDigits(Tail(s), v)

\* str::parse::<u16>: an optional "+" and at least one decimal digit, no
\* overflow of 16 bits.
parse_u16(s) ==
    IF s = <<>> THEN ParseErr
    ELSE IF Head(s) = "+"
         THEN (IF Len(s) = 1 THEN ParseErr ELSE ParseDigits(Tail(s), 0))
         ELSE ParseDigits(s, 0)

\* The value of a card token (lib.rs 259-282): the text before the last
\* character, as a number or as one of the face letters.
CardValue(card) ==
    LET text == Front(card)
        num == parse_u16(text)
    IN  IF num # ParseErr THEN num
        ELSE CASE text = <<"A">> -> AceHigh
               [] text = <<"K">> -> KingValue
               [] text = <<"Q">> -> QueenValue
               [] text = <<"J">> -> JackValue
               [] OTHER -> ParseErr

\* phand.split(" "): the pieces between the spaces (one empty piece for "").
RECURSIVE SplitAcc(_, _, _)
SplitAcc(s, cur, acc) ==
    IF s = <<>> THEN Append(acc, cur)
    ELSE IF Head(s) = " " THEN SplitAcc(Tail(s), <<>>, Append(acc, cur))
    ELSE SplitAcc(Tail(s), Append(cur, Head(s)), acc)

Split(s) == SplitAcc(s, <<>>, <<>>)

\* A token of the fold of lib.rs 254-285 panics when it is empty
\* (chars().last().unwrap()) or when its rank text does not parse.
TokenPanics(card) == card = <<>> \/ CardValue(card) = ParseErr

ParseCard(card) == [suit |-> from_abbrev(Last(card)), value |-> CardValue(card)]

(***************************************************************************)
(* The rank-grouping HashMap of rank_hand.  Its values() come in an        *)
(* arbitrary order: order is a permutation of 1..(number of keys) and      *)
(* names, for each position of the iteration, the key (counted in          *)
(* ascending order) visited there.                                         *)
(***************************************************************************)
Keys(cards) == {cards[i].value : i \in DOMAIN cards}

RECURSIVE SetToAscSeq(_)
SetToAscSeq(S) ==
    IF S = {} THEN <<>>
    ELSE LET m == CHOOSE x \in S : \A y \in S : x <= y
         IN  <<m>> \o SetToAscSeq(S \ {m})

\* The Vec of the cards of one value, in the order of self.cards.
Group(cards, v) == SelectSeq(cards, LAMBDA c : c.value = v)

MapValues(cards, order) ==
    LET ks == SetToAscSeq(Keys(cards))
    IN  [i \in 1..Len(ks) |-> Group(cards, ks[order[i]])]

RECURSIVE Perms(_)
Perms(n) ==
    IF n = 0 THEN {<<>>}
    ELSE {[i \in 1..n |-> IF i < k THEN p[i] ELSE IF i = k THEN n ELSE p[i - 1]] :
             p \in Perms(n - 1), k \in 1..n}

(***************************************************************************)
(* PokerHand::aces_swap_over (lib.rs 449-475).  The closure of the two     *)
(* call sites differs only in the test of the suits: needSuit is TRUE for  *)
(* the straight flush (298-306) and FALSE for the straight (365-369).      *)
(***************************************************************************)
AllSameSuit(cards) == \A i \in DOMAIN cards : cards[i].suit = cards[1].suit

\* The rank texts of the inputs have at most two digits, so value + 1 stays
\* far below 2^16.
Consecutive(cards) ==
    \A i \in DOMAIN cards : i = 1 \/ cards[i].value = cards[i - 1].value + 1

cardcheck(cards, needSuit) ==
    (needSuit => AllSameSuit(cards)) /\ Consecutive(cards)

AcesToLow(cards) ==
    [i \in DOMAIN cards |->
        IF cards[i].value = AceHigh THEN [cards[i] EXCEPT !.value = AceLow]
        ELSE cards[i]]

\* A changed aces_swap_over: a failed check still stores the cards it tried.
aces_swap_over_leaky(self, needSuit) ==
    LET first == self.cards
        second == SortByValueAsc(AcesToLow(first))
    IN  IF cardcheck(first, needSuit)
        THEN [ret |-> TRUE,
              self |-> [self EXCEPT !.cards_ranked = first, !.rank_swapped_aces = FALSE]]
        ELSE IF cardcheck(second, needSuit)
        THEN [ret |-> TRUE,
              self |-> [self EXCEPT !.cards_ranked = second, !.rank_swapped_aces = TRUE]]
        ELSE [ret |-> FALSE, self |-> [self EXCEPT !.cards_ranked = second]]

\* A changed aces_swap_over: after the retry it stores the cards as parsed.
aces_swap_over_unswapped(self, needSuit) ==
    LET first == self.cards
        second == SortByValueAsc(AcesToLow(first))
    IN  IF cardcheck(first, needSuit)
        THEN [ret |-> TRUE,
              self |-> [self EXCEPT !.cards_ranked = first, !.rank_swapped_aces = FALSE]]
        ELSE IF cardcheck(second, needSuit)
        THEN [ret |-> TRUE,
              self |-> [self EXCEPT !.cards_ranked = first, !.rank_swapped_aces = TRUE]]
        ELSE [ret |-> FALSE, self |-> self]

\* The result is the returned bool and self as the call leaves it.
aces_swap_over(self, needSuit) ==
    LET first == self.cards
        second == SortByValueAsc(AcesToLow(first))
    IN  IF cardcheck(first, needSuit)
        THEN [ret |-> TRUE,
              self |-> [self EXCEPT !.cards_ranked = first, !.rank_swapped_aces = FALSE]]
        ELSE IF cardcheck(second, needSuit)
        THEN [ret |-> TRUE,
              self |-> [self EXCEPT !.cards_ranked = second, !.rank_swapped_aces = TRUE]]
        ELSE [ret |-> FALSE, self |-> self]

(***************************************************************************)
(* PokerHand::rank_hand (lib.rs 294-447).                                  *)
(***************************************************************************)
\* lib.rs 314-348: the arm of ix = 8; matched is "break 'rankloop".
RankFourOrFull(self, order) ==
    LET result == SortByLenDesc(MapValues(self.cards, order))
    IN  IF Cardinality(Keys(self.cards)) # 2 THEN [matched |-> FALSE, self |-> self]
        ELSE IF Len(result[1]) = 4
        THEN [matched |-> TRUE,
              self |-> [self EXCEPT !.cards_ranked = @ \o result[1],
                                    !.spares = @ \o result[2],
                                    !.rank = FourOfAKind]]
        ELSE IF Len(result[1]) = 3
        THEN [matched |-> TRUE,
              self |-> [self EXCEPT !.cards_ranked = @ \o Flatten(result),
                                    !.rank = FullHouse]]
        ELSE [matched |-> FALSE, self |-> self]

\* lib.rs 374-431: the last arm, which always assigns a rank.
RankGroups(self, order) ==
    LET result == SortByLenDesc(MapValues(self.cards, order))
        n == Len(result)
    IN  IF n = 3
        THEN IF Len(result[1]) = 3
             THEN [self EXCEPT !.cards_ranked = @ \o result[1],
                               !.spares = @ \o Flatten(SubSeq(result, 2, n)),
                               !.rank = ThreeOfAKind]
             ELSE [self EXCEPT !.cards_ranked =
                                   SortByValueDesc(@ \o result[1] \o result[2]),
                               !.spares = @ \o Flatten(SubSeq(result, 3, n)),
                               !.rank = TwoPair]
        ELSE IF n = 4
        THEN [self EXCEPT !.cards_ranked = @ \o result[1],
                          !.spares = @ \o Flatten(SubSeq(result, 2, n)),
                          !.rank = OnePair]
        ELSE [self EXCEPT !.spares = @ \o Flatten(result), !.rank = HighCard]

\* A changed end of rank_hand: the spares stay in the order of the map.
FinishSparesUnsorted(self) ==
    IF Len(self.spares) > 0
    THEN [self EXCEPT !.spares = AcesToLow(@)]
    ELSE self

\* lib.rs 435-444: an ace among the spares gets the value 1, then the spares
\* are sorted descending.
FinishSpares(self) ==
    IF Len(self.spares) > 0
    THEN [self EXCEPT !.spares = SortByValueDesc(AcesToLow(@))]
    ELSE self

\* A changed loop: the arm of the straight breaks without assigning rank.
RankLoopStraightUnassigned(self, ord1, ord2) ==
    LET sf == aces_swap_over(self, TRUE)
        four == RankFourOrFull(self, ord1)
        st == aces_swap_over(self, FALSE)
    IN  IF sf.ret THEN [sf.self EXCEPT !.rank = StraightFlush]
        ELSE IF four.matched THEN four.self
        ELSE IF AllSameSuit(self.cards)
        THEN [self EXCEPT !.cards_ranked = @ \o self.cards, !.rank = Flush]
        ELSE IF st.ret THEN st.self
        ELSE RankGroups(self, ord2)

\* lib.rs 296-433: the loop over ix = 9, 8, ..., which ends at the first arm
\* that breaks.
RankLoop(self, ord1, ord2) ==
    LET sf == aces_swap_over(self, TRUE)
        four == RankFourOrFull(self, ord1)
        st == aces_swap_over(self, FALSE)
    IN  IF sf.ret THEN [sf.self EXCEPT !.rank = StraightFlush]
        ELSE IF four.matched THEN four.self
        ELSE IF AllSameSuit(self.cards)
        THEN [self EXCEPT !.cards_ranked = @ \o self.cards, !.rank = Flush]
        ELSE IF st.ret THEN [st.self EXCEPT !.rank = Straight]
        ELSE RankGroups(self, ord2)

rank_hand(self, ord1, ord2) == FinishSpares(RankLoop(self, ord1, ord2))

(***************************************************************************)
(* PokerHand::from_parse (lib.rs 247-292).                                 *)
(***************************************************************************)
PanicHand == [ok |-> FALSE]

\* lib.rs 254-285: the fold over the tokens; a token that panics ends it.
ParseTokens(phand) ==
    LET toks == Split(phand)
    IN  IF \E i \in DOMAIN toks : TokenPanics(toks[i])
        THEN [panic |-> TRUE, cards |-> <<>>]
        ELSE [panic |-> FALSE, cards |-> [i \in DOMAIN toks |-> ParseCard(toks[i])]]

\* lib.rs 248-288: the hand before rank_hand, its cards sorted by value.
NewHand(index, cards) ==
    [ok |-> TRUE,
     id |-> index,
     rank |-> NotRanked,
     rank_swapped_aces |-> FALSE,
     spares |-> <<>>,
     cards_ranked |-> <<>>,
     cards |-> SortByValueAsc(cards)]

\* from_parse for the parsed tokens.
Construct(index, parsed, ord1, ord2) ==
    IF parsed.panic THEN PanicHand
    ELSE rank_hand(NewHand(index, parsed.cards), ord1, ord2)

from_parse(index, phand, ord1, ord2) ==
    Construct(index, ParseTokens(phand), ord1, ord2)

\* The iteration orders of the two maps of one rank_hand call.  The map of
\* lib.rs 316 is read only when it has two keys, and the map of lib.rs 376
\* is built only when no earlier arm has ended the loop.
Identity(n) == [i \in 1..n |-> i]

FirstMapOrders(parsed) ==
    IF ~parsed.panic /\ Cardinality(Keys(parsed.cards)) = 2 THEN Perms(2) ELSE {<<>>}

ReachesLastArm(self) ==
    /\ ~aces_swap_over(self, TRUE).ret
    /\ ~RankFourOrFull(self, Identity(Cardinality(Keys(self.cards)))).matched
    /\ ~AllSameSuit(self.cards)
    /\ ~aces_swap_over(self, FALSE).ret

SecondMapOrders(parsed) ==
    IF ~parsed.panic /\ ReachesLastArm(NewHand(0, parsed.cards))
    THEN Perms(Cardinality(Keys(parsed.cards)))
    ELSE {<<>>}

(***************************************************************************)
(* PartialEq and PartialOrd for PokerHand (lib.rs 107-240).  An index out  *)
(* of range and the unwrap of a None panic: the outcome "panic".           *)
(***************************************************************************)
CmpInt(a, b) == IF a < b THEN "Less" ELSE IF a > b THEN "Greater" ELSE "Equal"

\* xs[i].value.partial_cmp(&ys[i].value) with the index i of the code (from 0).
CmpAt(xs, ys, i) ==
    IF i + 1 \in DOMAIN xs /\ i + 1 \in DOMAIN ys
    THEN CmpInt(xs[i + 1].value, ys[i + 1].value)
    ELSE "panic"

\* for (idx, card) in xs.iter().enumerate(): the first comparison with
\* ys[idx] that is not Equal, and Equal after the last.
RECURSIVE CmpEach(_, _, _)
CmpEach(xs, ys, idx) ==
    IF idx + 1 \notin DOMAIN xs THEN "Equal"
    ELSE LET o == CmpAt(xs, ys, idx)
         IN  IF o = "Equal" THEN CmpEach(xs, ys, idx + 1) ELSE o

\* lib.rs 110-114: all() over self.cards, with other.cards.get(idx).unwrap().
RECURSIVE AllValuesEq(_, _, _)
AllValuesEq(xs, ys, idx) ==
    IF idx + 1 \notin DOMAIN xs THEN "true"
    ELSE IF idx + 1 \notin DOMAIN ys THEN "panic"
    ELSE IF xs[idx + 1].value = ys[idx + 1].value THEN AllValuesEq(xs, ys, idx + 1)
    ELSE "false"

eq(self, other) ==
    IF self.rank # other.rank THEN "false" ELSE AllValuesEq(self.cards, other.cards, 0)

\* A changed match: two full houses are compared by their triples alone.
CmpSameRankTripleOnly(self, other) ==
    CASE self.rank = StraightFlush -> CmpAt(self.cards_ranked, other.cards_ranked, 0)
      [] self.rank = FourOfAKind ->
            LET o == CmpAt(self.cards_ranked, other.cards_ranked, 0)
            IN  IF o = "Equal" THEN CmpAt(self.spares, other.spares, 0) ELSE o
      [] self.rank = FullHouse -> CmpAt(self.cards_ranked, other.cards_ranked, 0)
      [] self.rank = Flush -> CmpEach(self.cards_ranked, other.cards_ranked, 0)
      [] self.rank = HighCard -> CmpEach(self.spares, other.spares, 0)
      [] self.rank = Straight -> CmpAt(self.cards_ranked, other.cards_ranked, 0)
      [] self.rank \in {ThreeOfAKind, TwoPair, OnePair} ->
            LET first == CmpAt(self.cards_ranked, other.cards_ranked, 0)
                o == IF first = "Equal" /\ self.rank = TwoPair
                     THEN CmpAt(self.cards_ranked, other.cards_ranked, 2)
                     ELSE first
            IN  IF o = "Equal" THEN CmpEach(self.spares, other.spares, 0) ELSE o
      [] OTHER -> "panic"

\* lib.rs 132-236: the match on self.rank, for two hands of the same rank.
CmpSameRank(self, other) ==
    CASE self.rank = StraightFlush -> CmpAt(self.cards_ranked, other.cards_ranked, 0)
      [] self.rank = FourOfAKind ->
            LET o == CmpAt(self.cards_ranked, other.cards_ranked, 0)
            IN  IF o = "Equal" THEN CmpAt(self.spares, other.spares, 0) ELSE o
      [] self.rank = FullHouse ->
            LET o == CmpAt(self.cards_ranked, other.cards_ranked, 0)
            IN  IF o = "Equal" THEN CmpAt(self.cards_ranked, other.cards_ranked, 3) ELSE o
      [] self.rank = Flush -> CmpEach(self.cards_ranked, other.cards_ranked, 0)
      [] self.rank = HighCard -> CmpEach(self.spares, other.spares, 0)
      [] self.rank = Straight -> CmpAt(self.cards_ranked, other.cards_ranked, 0)
      [] self.rank \in {ThreeOfAKind, TwoPair, OnePair} ->
            LET first == CmpAt(self.cards_ranked, other.cards_ranked, 0)
                o == IF first = "Equal" /\ self.rank = TwoPair
                     THEN CmpAt(self.cards_ranked, other.cards_ranked, 2)
                     ELSE first
            IN  IF o = "Equal" THEN CmpEach(self.spares, other.spares, 0) ELSE o
      [] OTHER -> "panic"

\* A changed comparison of two ranks: the operands swapped, as in the
\* comparison of two suits.
RankCmpSwapped(a, b) == CmpInt(b, a)

\* PartialOrd for PokerRank (lib.rs 51-55).
RankCmp(a, b) == CmpInt(a, b)

partial_cmp(self, other) ==
    LET e == eq(self, other)
    IN  IF e = "panic" THEN "panic"
        ELSE IF e = "true" THEN "Equal"
        ELSE IF self.rank # other.rank THEN RankCmp(self.rank, other.rank)
        ELSE CmpSameRank(self, other)

\* Ord::cmp is partial_cmp(other).unwrap().
cmp(self, other) == partial_cmp(self, other)

(***************************************************************************)
(* winning_hands (lib.rs 7-27).                                            *)
(***************************************************************************)
\* poker_hands.sort_by(|a, b| b.cmp(&a)) on a slice of at most 20 elements is
\* the insertion sort of the standard library: each element moves left past
\* the elements e with e.cmp(element) == Less.  A panic of cmp ends the call.
\* A changed sort: an element also moves left past the elements it ties with.
RECURSIVE InsertTailUnstable(_, _)
InsertTailUnstable(sorted, x) ==
    IF sorted = <<>> THEN [panic |-> FALSE, v |-> <<x>>]
    ELSE LET c == cmp(Last(sorted), x)
         IN  IF c = "panic" THEN [panic |-> TRUE, v |-> <<>>]
             ELSE IF c \in {"Less", "Equal"}
             THEN LET r == InsertTailUnstable(Front(sorted), x)
                  IN  IF r.panic THEN r
                      ELSE [panic |-> FALSE, v |-> Append(r.v, Last(sorted))]
             ELSE [panic |-> FALSE, v |-> Append(sorted, x)]

RECURSIVE InsertTail(_, _)
InsertTail(sorted, x) ==
    IF sorted = <<>> THEN [panic |-> FALSE, v |-> <<x>>]
    ELSE LET c == cmp(Last(sorted), x)
         IN  IF c = "panic" THEN [panic |-> TRUE, v |-> <<>>]
             ELSE IF c = "Less"
             THEN LET r == InsertTail(Front(sorted), x)
                  IN  IF r.panic THEN r
                      ELSE [panic |-> FALSE, v |-> Append(r.v, Last(sorted))]
             ELSE [panic |-> FALSE, v |-> Append(sorted, x)]

RECURSIVE SortHandsDesc(_)
SortHandsDesc(v) ==
    IF v = <<>> THEN [panic |-> FALSE, v |-> <<>>]
    ELSE LET r == SortHandsDesc(Front(v))
         IN  IF r.panic THEN r ELSE InsertTail(r.v, Last(v))

\* lib.rs 18-26: the loop that pushes hands[ph.index()] while ph ties with
\* the hand before it.  idx counts from 0 as in the code.
RECURSIVE CollectFrom(_, _, _, _)
CollectFrom(input, sorted, idx, acc) ==
    IF idx + 1 \notin DOMAIN sorted THEN [panic |-> FALSE, v |-> acc]
    ELSE LET c == IF idx = 0 THEN "Equal" ELSE cmp(sorted[idx + 1], sorted[idx])
         IN  IF c = "panic" THEN [panic |-> TRUE, v |-> <<>>]
             ELSE IF c = "Equal"
             THEN CollectFrom(input, sorted, idx + 1,
                              Append(acc, input[sorted[idx + 1].id + 1]))
             ELSE [panic |-> FALSE, v |-> acc]

\* A changed collection: only the first hand of the sorted list is returned.
CollectFirstOnly(input, sorted) ==
    IF sorted = <<>> THEN [panic |-> FALSE, v |-> <<>>]
    ELSE [panic |-> FALSE, v |-> <<input[sorted[1].id + 1]>>]

Collect(input, sorted) == CollectFrom(input, sorted, 0, <<>>)

(***************************************************************************)
(* The inputs.  A hand string is written from the values and the suit      *)
(* characters of its cards, with the rank texts and the single spaces of   *)
(* the input format.                                                       *)
(***************************************************************************)
DigitChar(d) ==
    CASE d = 0 -> "0" [] d = 1 -> "1" [] d = 2 -> "2" [] d = 3 -> "3"
      [] d = 4 -> "4" [] d = 5 -> "5" [] d = 6 -> "6" [] d = 7 -> "7"
      [] d = 8 -> "8" [] d = 9 -> "9"

RankText(v) ==
    CASE v = 14 -> <<"A">>
      [] v = 13 -> <<"K">>
      [] v = 12 -> <<"Q">>
      [] v = 11 -> <<"J">>
      [] v = 10 -> <<"1", "0">>
      [] OTHER -> <<DigitChar(v)>>

RECURSIVE JoinTokens(_)
JoinTokens(toks) ==
    IF toks = <<>> THEN <<>>
    ELSE IF Len(toks) = 1 THEN toks[1]
    ELSE toks[1] \o <<" ">> \o JoinTokens(Tail(toks))

\* The hand string of the cards values[i] of suit suitchars[i], in this order.
HandText(values, suitchars) ==
    JoinTokens([i \in DOMAIN values |-> RankText(values[i]) \o <<suitchars[i]>>])

\* The same cards written in another order.
Shuffle == <<3, 5, 1, 4, 2>>

Shuffled(s) == [i \in DOMAIN s |-> s[Shuffle[i]]]

\* Suit characters by position: two that make no flush and never give the
\* same suit to two cards of one value, and two flushes.
MixedUpper == <<"S", "H", "D", "C", "S">>
MixedLower == <<"h", "d", "c", "s", "h">>
FlushUpper == <<"S", "S", "S", "S", "S">>
FlushLower == <<"d", "d", "d", "d", "d">>

\* The non-decreasing sequences of n values of R.
RECURSIVE NonDecreasing(_, _)
NonDecreasing(R, n) ==
    IF n = 0 THEN {<<>>}
    ELSE {Append(sr[1], sr[2]) :
            sr \in {x \in NonDecreasing(R, n - 1) \X R :
                       x[1] = <<>> \/ Last(x[1]) <= x[2]}}

\* The values of the five-card hands over R: at most four cards of a value.
HandValues(R) == {s \in NonDecreasing(R, 5) : s[1] # s[5]}

Distinct(s) == \A i, j \in DOMAIN s : i # j => s[i] # s[j]

\* The ten straights, the ace-low one first.
StraightValues == {<<2, 3, 4, 5, 14>>} \cup {[i \in 1..5 |-> low + i - 1] : low \in 2..10}

AllRanks == 2..14

\* The values of the hands that are compared in pairs: every hand over
\* GroupRanks, every hand of five different values over DistinctRanks, and
\* the ten straights.
GroupRanks == {2, 3, 4, 13, 14}

DistinctRanks == {2, 3, 4, 5, 6, 13, 14}

CmpValues ==
    HandValues(GroupRanks)
    \cup {v \in HandValues(DistinctRanks) : Distinct(v)}
    \cup StraightValues

LhsHands ==
    {HandText(v, MixedUpper) : v \in CmpValues}
    \cup {HandText(v, FlushUpper) : v \in {x \in CmpValues : Distinct(x)}}

RhsHands ==
    {HandText(Shuffled(v), Shuffled(MixedLower)) : v \in CmpValues}
    \cup {HandText(Shuffled(v), FlushLower) : v \in {x \in CmpValues : Distinct(x)}}

\* Every five-card hand of the deck up to the suits: each multiset of values
\* without a flush and, where the values differ, with a flush.
SingleHands ==
    {HandText(Shuffled(v), Shuffled(MixedLower)) : v \in HandValues(AllRanks)}
    \cup {HandText(Shuffled(v), FlushLower) :
             v \in {x \in HandValues(AllRanks) : Distinct(x)}}

\* The hands of the lists of several hands: examples of the specification,
\* ties in two categories, and four malformed strings.
ValidPool ==
    { HandText(<<4, 5, 6, 7, 8>>, FlushUpper),
      HandText(<<8, 4, 6, 5, 7>>, FlushLower),
      HandText(<<2, 4, 5, 8, 9>>, FlushUpper),
      HandText(<<4, 5, 6, 7, 8>>, MixedUpper),
      HandText(<<14, 2, 3, 4, 5>>, MixedUpper),
      HandText(<<9, 9, 4, 4, 13>>, <<"S", "D", "H", "C", "H">>),
      HandText(<<4, 13, 9, 4, 9>>, <<"d", "s", "h", "s", "c">>),
      HandText(<<3, 3, 3, 12, 12>>, <<"S", "D", "H", "C", "H">>) }

DuplicateCardHand == HandText(<<2, 2, 9, 9, 11>>, <<"S", "S", "H", "H", "D">>)
EmptyHand == <<>>
FourTokenHand == HandText(<<4, 5, 6, 7>>, <<"S", "S", "S", "S">>)
UnknownSuitHand == HandText(<<2, 3, 4, 5, 6>>, <<"X", "S", "S", "S", "S">>)

MalformedPool == {DuplicateCardHand, EmptyHand, FourTokenHand, UnknownSuitHand}

HandPool == ValidPool \cup MalformedPool

MaxHands == 3

RECURSIVE Lists(_, _)
Lists(S, n) ==
    IF n = 0 THEN {<<>>}
    ELSE Lists(S, n - 1)
         \cup {Append(l, h) : l \in {x \in Lists(S, n - 1) : Len(x) = n - 1}, h \in S}

Inputs == Lists(HandPool, MaxHands) \cup {<<h>> : h \in SingleHands}

(***************************************************************************)
(* Spec: one call of winning_hands.                                        *)
(***************************************************************************)
NoHand == [ok |-> FALSE, id |-> 0 - 1]

Init ==
    /\ hands \in Inputs
    /\ pc = "fold"
    /\ poker_hands = <<>>
    /\ ret = <<>>
    /\ lhs = NoHand
    /\ rhs = NoHand
    /\ ordering = "none"

\* lib.rs 8-14: one step of the fold, PokerHand::from_parse(idx, handin).
ParseHand ==
    /\ pc = "fold"
    /\ Len(poker_hands) < Len(hands)
    /\ LET idx == Len(poker_hands)
           handin == hands[idx + 1]
           parsed == ParseTokens(handin)
       IN  \E o1 \in FirstMapOrders(parsed), o2 \in SecondMapOrders(parsed) :
              LET ph == Construct(idx, parsed, o1, o2)
              IN  IF ph.ok
                  THEN /\ poker_hands' = Append(poker_hands, ph)
                       /\ pc' = "fold"
                  ELSE /\ poker_hands' = poker_hands
                       /\ pc' = "panic"
    /\ UNCHANGED <<hands, ret, lhs, rhs, ordering>>

\* lib.rs 16.
SortHands ==
    /\ pc = "fold"
    /\ Len(poker_hands) = Len(hands)
    /\ LET r == SortHandsDesc(poker_hands)
       IN  IF r.panic
           THEN /\ pc' = "panic"
                /\ poker_hands' = poker_hands
           ELSE /\ pc' = "sorted"
                /\ poker_hands' = r.v
    /\ UNCHANGED <<hands, ret, lhs, rhs, ordering>>

\* lib.rs 18-26.
CollectWinners ==
    /\ pc = "sorted"
    /\ LET r == Collect(hands, poker_hands)
       IN  IF r.panic
           THEN /\ pc' = "panic"
                /\ ret' = ret
           ELSE /\ pc' = "done"
                /\ ret' = r.v
    /\ UNCHANGED <<hands, poker_hands, lhs, rhs, ordering>>

Next == ParseHand \/ SortHands \/ CollectWinners

Spec == Init /\ [][Next]_vars

(***************************************************************************)
(* SpecCmp: two hands are constructed and compared.                        *)
(***************************************************************************)
InitCmp ==
    /\ hands = <<>>
    /\ pc = "cmp"
    /\ poker_hands = <<>>
    /\ ret = <<>>
    /\ lhs = NoHand
    /\ rhs = NoHand
    /\ ordering = "none"

ParseLhs ==
    /\ pc = "cmp"
    /\ lhs = NoHand
    /\ \E h \in LhsHands :
          LET parsed == ParseTokens(h)
          IN  \E o1 \in FirstMapOrders(parsed), o2 \in SecondMapOrders(parsed) :
                 lhs' = Construct(0, parsed, o1, o2)
    /\ UNCHANGED <<hands, pc, poker_hands, ret, rhs, ordering>>

ParseRhs ==
    /\ pc = "cmp"
    /\ lhs # NoHand
    /\ rhs = NoHand
    /\ \E h \in RhsHands :
          LET parsed == ParseTokens(h)
          IN  \E o1 \in FirstMapOrders(parsed), o2 \in SecondMapOrders(parsed) :
                 rhs' = Construct(1, parsed, o1, o2)
    /\ UNCHANGED <<hands, pc, poker_hands, ret, lhs, ordering>>

\* lhs.cmp(&rhs)
Compare ==
    /\ pc = "cmp"
    /\ lhs # NoHand
    /\ rhs # NoHand
    /\ ordering = "none"
    /\ ordering' = cmp(lhs, rhs)
    /\ UNCHANGED <<hands, pc, poker_hands, ret, lhs, rhs>>

NextCmp == ParseLhs \/ ParseRhs \/ Compare

SpecCmp == InitCmp /\ [][NextCmp]_vars

(***************************************************************************)
(* What the specification calls a valid hand string: exactly five tokens,  *)
(* each a rank text 2..10, J, Q, K, A followed by one of the suit letters  *)
(* S, H, D, C in either case, and no card twice.                           *)
(***************************************************************************)
ValidRankTexts == {RankText(v) : v \in AllRanks}

SuitLetters == {"S", "H", "D", "C", "s", "h", "d", "c"}

WellFormedToken(tok) ==
    /\ Len(tok) >= 2
    /\ Front(tok) \in ValidRankTexts
    /\ Last(tok) \in SuitLetters

Malformed(h) ==
    LET toks == Split(h)
    IN  \/ Len(toks) # 5
        \/ \E i \in DOMAIN toks : ~WellFormedToken(toks[i])
        \/ \E i, j \in DOMAIN toks :
              /\ i # j
              /\ Front(toks[i]) = Front(toks[j])
              /\ to_ascii_uppercase(Last(toks[i])) = to_ascii_uppercase(Last(toks[j]))

AllValid == \A i \in DOMAIN hands : ~Malformed(hands[i])

\* The classified hand of the input at position i (from 1), once parsed.
HandOf(i) == CHOOSE ph \in {poker_hands[k] : k \in DOMAIN poker_hands} : ph.id = i - 1

\* The positions of the hands that no hand of the input beats.
MaxIdx ==
    {i \in DOMAIN hands :
        \A j \in DOMAIN hands : cmp(HandOf(j), HandOf(i)) # "Greater"}

Occurrences(seq, s) == Cardinality({k \in DOMAIN seq : seq[k] = s})

(***************************************************************************)
(* C1.  For a list of valid hands the call returns exactly the hands that  *)
(* tie with the maximum under the comparator: each string is returned as   *)
(* often as it stands at a position of a maximal hand, every hand left out *)
(* compares Less to every maximal hand, the empty list gives the empty     *)
(* list and a single hand is returned as the only winner.                  *)
(***************************************************************************)
C1_WinnersAreTheMaxima ==
    (pc = "done" /\ AllValid) =>
        /\ \A i \in DOMAIN hands :
              Occurrences(ret, hands[i])
                 = Cardinality({m \in MaxIdx : hands[m] = hands[i]})
        /\ \A k \in DOMAIN ret : \E i \in MaxIdx : ret[k] = hands[i]
        /\ \A i \in MaxIdx : \A j \in DOMAIN hands \ MaxIdx :
              cmp(HandOf(j), HandOf(i)) = "Less"
        /\ (hands = <<>> => ret = <<>>)
        /\ (Len(hands) = 1 => ret = hands)

\* Three valid hands of which two tie for the best and one loses.
C1_Witness ==
    /\ pc = "done"
    /\ AllValid
    /\ Len(hands) = 3
    /\ Len(ret) = 2
    /\ Cardinality(MaxIdx) = 2

(***************************************************************************)
(* C2.  For a list of valid hands the result is the subsequence of the     *)
(* input at the positions of the winning hands: the k-th returned string   *)
(* is the input element at the k-th winning position in ascending order,   *)
(* so no position is returned twice and the input order is kept.           *)
(***************************************************************************)
C2_OrderPreserving ==
    (pc = "done" /\ AllValid) =>
        LET win == SetToAscSeq(MaxIdx)
        IN  /\ Len(ret) = Len(win)
            /\ \A k \in DOMAIN ret :
                  /\ ret[k] = hands[win[k]]
                  /\ poker_hands[k].id + 1 = win[k]

\* Two winners that are not neighbours in the input and differ as strings.
C2_Witness ==
    /\ pc = "done"
    /\ AllValid
    /\ Len(hands) = 3
    /\ Len(ret) = 2
    /\ ret[1] = hands[1]
    /\ ret[2] = hands[3]
    /\ hands[1] # hands[3]
    /\ hands[2] \notin {hands[1], hands[3]}

(***************************************************************************)
(* Definitions of the statements about two classified hands.               *)
(***************************************************************************)
\* The card values of a hand as parsed, ascending, the ace as 14.
Values(h) == [i \in DOMAIN h.cards |-> h.cards[i].value]

Reversed(s) == [i \in DOMAIN s |-> s[Len(s) + 1 - i]]

ValuesDesc(h) == Reversed(Values(h))

Opposite(o) ==
    CASE o = "Less" -> "Greater"
      [] o = "Greater" -> "Less"
      [] OTHER -> o

\* The first difference of two sequences of numbers of one length decides.
RECURSIVE LexCmp(_, _)
LexCmp(xs, ys) ==
    IF xs = <<>> \/ ys = <<>> THEN CmpInt(Len(xs), Len(ys))
    ELSE IF Head(xs) # Head(ys) THEN CmpInt(Head(xs), Head(ys))
    ELSE LexCmp(Tail(xs), Tail(ys))

ValueEqual(a, b) == a.rank = b.rank /\ Values(a) = Values(b)

\* from_parse with both maps iterated in ascending order of their keys.
Canonical(index, phand) ==
    LET parsed == ParseTokens(phand)
        n == Cardinality(Keys(parsed.cards))
    IN  Construct(index, parsed, Identity(n), Identity(n))

\* The hands a third operand of a comparison is taken from.
ThirdHands == {Canonical(2, h) : h \in RhsHands}

Compared == lhs.ok /\ rhs.ok /\ ordering # "none"

(***************************************************************************)
(* C3.  On classified valid hands the comparison is a total order          *)
(* consistent with equality: a hand is Equal to itself, cmp(b, a) is the   *)
(* reverse of cmp(a, b), Greater is transitive, and cmp(a, b) is Equal     *)
(* exactly when a == b, which is the case exactly when the categories and  *)
(* the card values at each position are equal, whatever the suits.         *)
(***************************************************************************)
C3_TotalOrder ==
    Compared =>
        /\ ordering \in {"Less", "Equal", "Greater"}
        /\ cmp(lhs, lhs) = "Equal"
        /\ cmp(rhs, rhs) = "Equal"
        /\ cmp(rhs, lhs) = Opposite(ordering)
        /\ (ordering = "Equal") = (eq(lhs, rhs) = "true")
        /\ (eq(lhs, rhs) = "true") = ValueEqual(lhs, rhs)
        /\ \A c \in ThirdHands :
              (ordering = "Greater" /\ cmp(rhs, c) = "Greater") => cmp(lhs, c) = "Greater"

\* Two hands of equal values and different suits have been compared.
C3_Witness ==
    /\ Compared
    /\ ordering = "Equal"
    /\ lhs.rank = FullHouse
    /\ \E i \in DOMAIN lhs.cards : lhs.cards[i].suit # rhs.cards[i].suit

(***************************************************************************)
(* C4.  Every valid hand that has been classified has one of the nine real *)
(* categories, never NotRanked, and a call on valid hands never panics, so *)
(* the panic arm of the comparison is not reached.                         *)
(***************************************************************************)
C4_AlwaysRanked ==
    /\ \A k \in DOMAIN poker_hands :
          ~Malformed(hands[poker_hands[k].id + 1]) =>
              poker_hands[k].rank \in HighCard..StraightFlush
    /\ AllValid => pc # "panic"

\* Three valid hands of three categories have been classified and compared.
C4_Witness ==
    /\ pc = "done"
    /\ AllValid
    /\ Len(poker_hands) = 3
    /\ Cardinality({poker_hands[k].rank : k \in DOMAIN poker_hands}) = 3
    /\ \A k \in DOMAIN poker_hands : poker_hands[k].rank # NotRanked

(***************************************************************************)
(* C5.  Two hands of one category with equal ranked groups are ordered by  *)
(* their kickers, the cards outside the ranked group, taken in descending  *)
(* order with the ace as 14.                                               *)
(***************************************************************************)
KickerCategories == {FourOfAKind, ThreeOfAKind, TwoPair, OnePair, HighCard}

RankedValues(h) == [i \in DOMAIN h.cards_ranked |-> h.cards_ranked[i].value]

KickersDesc(h) ==
    LET grouped == {h.cards_ranked[i].value : i \in DOMAIN h.cards_ranked}
    IN  Reversed(SelectSeq(Values(h), LAMBDA v : v \notin grouped))

C5_KickersAceHigh ==
    (/\ Compared
     /\ lhs.rank = rhs.rank
     /\ lhs.rank \in KickerCategories
     /\ RankedValues(lhs) = RankedValues(rhs))
        => ordering = LexCmp(KickersDesc(lhs), KickersDesc(rhs))

(***************************************************************************)
(* C6.  Two straights, and two straight flushes, are ordered by their top  *)
(* rank, which is 5 for A-2-3-4-5 and the highest value otherwise; the     *)
(* five values of a straight are always classified as a straight or a      *)
(* straight flush, and rank_swapped_aces is set exactly for A-2-3-4-5, the *)
(* straight whose ace-high check fails.                                    *)
(***************************************************************************)
AceLowValues == <<2, 3, 4, 5, 14>>

IsStraightValues(v) ==
    v = AceLowValues \/ \A i \in 2..Len(v) : v[i] = v[i - 1] + 1

TopRank(h) == IF Values(h) = AceLowValues THEN 5 ELSE Values(h)[5]

C6_StraightsByTopRank ==
    /\ \A h \in {lhs, rhs} :
          h.ok =>
             /\ IsStraightValues(Values(h)) = (h.rank \in {Straight, StraightFlush})
             /\ h.rank_swapped_aces = (Values(h) = AceLowValues)
    /\ (Compared /\ lhs.rank = rhs.rank /\ lhs.rank \in {Straight, StraightFlush})
          => ordering = CmpInt(TopRank(lhs), TopRank(rhs))

\* A-2-3-4-5 has been compared with 2-3-4-5-6 and ranks below it.
C6_Witness ==
    /\ Compared
    /\ lhs.rank = Straight
    /\ rhs.rank = Straight
    /\ lhs.rank_swapped_aces
    /\ Values(rhs) = <<2, 3, 4, 5, 6>>
    /\ ordering = "Less"

(***************************************************************************)
(* C7.  A call with a malformed hand string (a card twice, an empty        *)
(* string, not five tokens, an unknown suit letter) ends in a failure and  *)
(* never returns a list of winners.                                        *)
(***************************************************************************)
C7_MalformedFails ==
    (\E i \in DOMAIN hands : Malformed(hands[i])) => pc # "done"

(***************************************************************************)
(* C8.  The result does not depend on the iteration order of the rank      *)
(* maps: every classified hand is the hand that the ascending order of the *)
(* keys gives, in all its fields, and the winners returned are those that  *)
(* this order gives.                                                       *)
(***************************************************************************)
CanonicalWinners ==
    LET parsed == [i \in DOMAIN hands |-> Canonical(i - 1, hands[i])]
    IN  Collect(hands, SortHandsDesc(parsed).v).v

C8_OrderIndependent ==
    /\ \A k \in DOMAIN poker_hands :
          poker_hands[k] = Canonical(poker_hands[k].id, hands[poker_hands[k].id + 1])
    /\ pc = "done" => ret = CanonicalWinners

\* A call on one hand with five groups of one card each has returned.
C8_Witness ==
    /\ pc = "done"
    /\ Len(poker_hands) = 1
    /\ poker_hands[1].rank = HighCard
    /\ Len(poker_hands[1].spares) = 5
    /\ ret = hands

(***************************************************************************)
(* C9.  Two flushes are compared over their five values in descending      *)
(* order: the first difference from the highest card down decides.         *)
(***************************************************************************)
C9_FlushHighestFirst ==
    (Compared /\ lhs.rank = Flush /\ rhs.rank = Flush)
        => ordering = LexCmp(ValuesDesc(lhs), ValuesDesc(rhs))

(***************************************************************************)
(* C10.  Every valid hand gets the highest category whose pattern it       *)
(* matches, and of two hands of different categories the one of the higher *)
(* category compares Greater, whatever the values of the cards.            *)
(***************************************************************************)
CountOf(vals, v) == Cardinality({i \in DOMAIN vals : vals[i] = v})

ExpectedCategory(h) ==
    LET vals == Values(h)
        keys == {vals[i] : i \in DOMAIN vals}
        most == CHOOSE n \in 1..5 :
                   /\ \E v \in keys : CountOf(vals, v) = n
                   /\ \A v \in keys : CountOf(vals, v) <= n
        flush == \A i \in DOMAIN h.cards : h.cards[i].suit = h.cards[1].suit
        straight == IsStraightValues(vals)
    IN  IF flush /\ straight THEN StraightFlush
        ELSE IF most = 4 THEN FourOfAKind
        ELSE IF most = 3 /\ Cardinality(keys) = 2 THEN FullHouse
        ELSE IF flush THEN Flush
        ELSE IF straight THEN Straight
        ELSE IF most = 3 THEN ThreeOfAKind
        ELSE IF most = 2 /\ Cardinality(keys) = 3 THEN TwoPair
        ELSE IF most = 2 THEN OnePair
        ELSE HighCard

C10_CategoryFirst ==
    /\ \A h \in {lhs, rhs} : h.ok => h.rank = ExpectedCategory(h)
    /\ (Compared /\ lhs.rank # rhs.rank) => ordering = CmpInt(lhs.rank, rhs.rank)

\* A flush has been compared with a straight of higher cards and wins.
C10_Witness ==
    /\ Compared
    /\ lhs.rank = Flush
    /\ rhs.rank = Straight
    /\ Values(lhs)[5] < Values(rhs)[5]
    /\ ordering = "Greater"

(***************************************************************************)
(* C11.  After the classification of a valid hand the ranked group and the *)
(* kickers partition its five cards: their lengths add up to 5 and are 5+0 *)
(* for a straight flush, full house, flush and straight, 4+1 for four of a *)
(* kind and two pair, 3+2 for three of a kind, 2+3 for one pair and 0+5    *)
(* for a high card; the kickers are in descending order of the value they  *)
(* carry; a failed straight or straight-flush check leaves the ranked      *)
(* group empty and the parsed cards unchanged.                             *)
(***************************************************************************)
GroupSizes(rank) ==
    CASE rank \in {StraightFlush, FullHouse, Flush, Straight} -> <<5, 0>>
      [] rank \in {FourOfAKind, TwoPair} -> <<4, 1>>
      [] rank = ThreeOfAKind -> <<3, 2>>
      [] rank = OnePair -> <<2, 3>>
      [] rank = HighCard -> <<0, 5>>

\* The hand of a classified hand h as from_parse hands it to rank_hand.
Unranked(h) == NewHand(h.id, ParseTokens(hands[h.id + 1]).cards)

\* A card of the ranked group or of the kickers as it was parsed: an ace
\* that was given the value 1 is the ace of the same suit.
AsParsed(c) == IF c.value = AceLow THEN [c EXCEPT !.value = AceHigh] ELSE c

CardSet(cards) == {AsParsed(cards[i]) : i \in DOMAIN cards}

DescendingValues(cards) ==
    \A i \in DOMAIN cards : i + 1 \in DOMAIN cards => cards[i].value >= cards[i + 1].value

FailedCheckLeavesHand(h0, needSuit) ==
    LET r == aces_swap_over(h0, needSuit)
    IN  ~r.ret => /\ r.self.cards_ranked = <<>>
                  /\ r.self.cards = h0.cards
                  /\ r.self = h0

====
